---- MODULE Spec2Model ----
(***************************************************************************)
(* Model of frispy/model.py (the coefficient Model dataclass and its nine  *)
(* preset subclasses) and of the disc operations example2.py drives.       *)
(*                                                                         *)
(* Numbers.  Python floats are modelled by exact integer arithmetic on a   *)
(* fixed grid:                                                             *)
(*   - a coefficient value (the result of a C_ function, and the constant  *)
(*     terms PL0, PD0, PTy0) is an integer count of 1e-6;                  *)
(*   - an angle (alpha, alpha_0) is an integer count of 0.01 rad;          *)
(*   - an angular velocity (wx, wy, wz) is an integer count of 1 rad/s;    *)
(*   - a slope is stored per unit of its argument, so PLa = 1.9 per rad is *)
(*     0.019 per 0.01 rad = 19000, and PDa = 0.69 per rad^2 is 0.000069    *)
(*     per (0.01 rad)^2 = 69.                                              *)
(* With these units every expression of model.py is computed by the same   *)
(* formula as in the source, without rounding.  alpha_0 = 4*pi/180         *)
(* = 0.0698 rad is irrational and is represented by the nearest grid       *)
(* point, 7.                                                               *)
(*                                                                         *)
(* frispy/disc.py (set_default_initial_conditions, reset_initial_conditions*)
(* and compute_trajectory, which example2.py calls) lies outside model.py  *)
(* and example2.py; those operations are modelled from the specification   *)
(* (sections 4.4, 4.5 and 6).  Initial-condition and trajectory values are *)
(* integer counts of 0.1 (m, m/s, rad, rad/s); time is counted in steps.   *)
(***************************************************************************)
EXTENDS Integers, Sequences, FiniteSets, TLC

\* ------------------------------------------------------------------ bounds
\* Field values a caller assigns are -MaxParam, 0 or MaxParam.
MaxParam == 1
\* alpha arguments are 0, alpha_0 - MaxAlpha, alpha_0 or alpha_0 + MaxAlpha.
MaxAlpha == 1
\* angular-velocity arguments are -MaxOmega, 0 or MaxOmega.
MaxOmega == 1
\* number of attribute assignments made to one instance.
MaxSets == 1
\* initial-condition values a caller passes are 0 or MaxIC.
MaxIC == 2
\* number of set_default_initial_conditions calls on one disc.
MaxOverrideCalls == 2
\* flight_time arguments, in integration steps: 0 .. MaxFlight.
MaxFlight == 3

\* ------------------------------------------------------- the dataclasses
FieldNames ==
  {"PL0", "PLa", "PD0", "PDa", "PTxwx", "PTxwz", "PTy0", "PTya", "PTywy",
   "PTzwz", "alpha_0"}

Subclasses ==
  {"JankieModel", "HummelModel", "AviarModel", "BuzzModel", "RocModel",
   "FlickModel", "StormModel", "WraithModel", "QuarterModel"}

Classes == {"Model"} \cup Subclasses

FunctionNames == {"C_lift", "C_drag", "C_x", "C_y", "C_z"}

\* The fields a class body declares, with their defaults (model.py:18-28 and
\* the body of each subclass).
ClassBody(cls) ==
  CASE cls = "Model" ->
         [PL0 |-> 330000, PLa |-> 19000, PD0 |-> 180000, PDa |-> 69,
          PTxwx |-> -13000, PTxwz |-> -1700, PTy0 |-> -82000, PTya |-> 4300,
          PTywy |-> -14000, PTzwz |-> -34, alpha_0 |-> 7]
    [] cls = "JankieModel" ->
         [PL0 |-> 999000000, PLa |-> 9990000, PD0 |-> 999000000,
          PTy0 |-> -999000000, PTya |-> 9990000]
    [] cls = "HummelModel" ->
         [PL0 |-> 330000, PLa |-> 19000, PD0 |-> 180000, PTy0 |-> -82000,
          PTya |-> 4300]
    [] cls = "AviarModel" ->
         [PL0 |-> 152000, PLa |-> 440, PD0 |-> 83000, PTy0 |-> -18000,
          PTya |-> 20]
    [] cls = "BuzzModel" ->
         [PL0 |-> 99000, PLa |-> 410, PD0 |-> 61000, PTy0 |-> -33000,
          PTya |-> 40]
    [] cls = "RocModel" ->
         [PL0 |-> 53000, PLa |-> 430, PD0 |-> 67000, PTy0 |-> -15000,
          PTya |-> 30]
    [] cls = "FlickModel" ->
         [PL0 |-> 100000, PLa |-> 380, PD0 |-> 76000, PTy0 |-> -7000,
          PTya |-> 80]
    [] cls = "StormModel" ->
         [PL0 |-> 107000, PLa |-> 450, PD0 |-> 57000, PTy0 |-> -26000,
          PTya |-> 40]
    [] cls = "WraithModel" ->
         [PL0 |-> 143000, PLa |-> 400, PD0 |-> 55000, PTy0 |-> -20000,
          PTya |-> 60]
    [] cls = "QuarterModel" ->
         [PL0 |-> 138000, PLa |-> 390, PD0 |-> 65000, PTy0 |-> -38000,
          PTya |-> 50]

\* The methods a class body defines: the five coefficient functions are
\* defined in Model and in no subclass.  (MethodsDefined_sub: a subclass
\* that redefines them.)
MethodsDefined_sub(cls) ==
  IF cls \in {"Model", "JankieModel"} THEN FunctionNames ELSE {}

MethodsDefined(cls) == IF cls = "Model" THEN FunctionNames ELSE {}

\* Method resolution order of a class: itself, then Model.
Owner(cls, fn) == IF fn \in MethodsDefined(cls) THEN cls ELSE "Model"

\* The defaults of a class's generated __init__: the fields of Model, each
\* default replaced by the subclass's own declaration when it has one.
Defaults(cls) ==
  [f \in FieldNames |->
     IF f \in DOMAIN ClassBody(cls) THEN ClassBody(cls)[f]
     ELSE ClassBody("Model")[f]]

\* cls(**kw): the generated __init__ stores each keyword, else the default.
New(cls, kw) ==
  [f \in FieldNames |-> IF f \in DOMAIN kw THEN kw[f] ELSE Defaults(cls)[f]]

\* ------------------------------------------------- coefficient functions
\* Each function is preceded by a faulty variant of it, used to test that the
\* properties below depend on the function.
C_lift_shifted(self, alpha) == self.PL0 + self.PLa * (alpha - self.alpha_0)

C_lift(self, alpha) == self.PL0 + self.PLa * alpha

C_drag_negated(self, alpha) ==
  self.PD0 - self.PDa * ((alpha - self.alpha_0) * (alpha - self.alpha_0))

C_drag_noshift(self, alpha) == self.PD0 + self.PDa * (alpha * alpha)

C_drag(self, alpha) ==
  self.PD0 + self.PDa * ((alpha - self.alpha_0) * (alpha - self.alpha_0))

C_x(self, wx, wz) == self.PTxwx * wx + self.PTxwz * wz

C_y_swapped(self, alpha, wy) ==
  self.PTy0 + self.PTywy * alpha + self.PTya * wy

C_y(self, alpha, wy) == self.PTy0 + self.PTywy * wy + self.PTya * alpha

C_z_squared(self, wz) == self.PTzwz * (wz * wz)

C_z(self, wz) == self.PTzwz * wz

\* self.fn(*args) as the class Model defines fn.
ModelCall(fn, self, args) ==
  CASE fn = "C_lift" -> C_lift(self, args[1])
    [] fn = "C_drag" -> C_drag(self, args[1])
    [] fn = "C_x" -> C_x(self, args[1], args[2])
    [] fn = "C_y" -> C_y(self, args[1], args[2])
    [] fn = "C_z" -> C_z(self, args[1])

\* ---------------------------------------------------------------- state
VARIABLES
  cls,      \* the class of the Model instance under observation
  m,        \* its eleven fields (the instance __dict__)
  m0,       \* the fields as __init__ stored them
  nsets,    \* attribute assignments made to the instance so far
  last,     \* the most recent coefficient call: function, owner, args, result
  probe,    \* an earlier call on the same field values, kept for comparison
  ic_orig,      \* the disc's initial conditions as originally configured
  ic_default,   \* the disc's stored default initial conditions
  ic_current,   \* the disc's current initial conditions
  applied,      \* the overrides merged so far (later over earlier)
  lastop,       \* the last operation on the disc's initial conditions
  nover,        \* set_default_initial_conditions calls made so far
  status,       \* the integrator's state
  flight_time,  \* the requested flight time of the run
  t,            \* the time of the integrator's working state
  work,         \* the integrator's working kinematic state
  traj,         \* the trajectory's thirteen arrays
  recorded      \* the samples recorded by the run, in order

modelVars == <<cls, m, m0, nsets, last, probe>>

icVars == <<ic_orig, ic_default, ic_current, applied, lastop, nover>>

runVars == <<status, flight_time, t, work, traj, recorded>>

vars == <<modelVars, icVars, runVars>>

\* ------------------------------------------------ the coefficient Model
NoCall == [fn |-> "none"]

\* The empty mapping: no keyword arguments, no kinematic state.
NoState == [n \in {} |-> 0]

ParamValues == {-MaxParam, 0, MaxParam}

Omegas == {-MaxOmega, 0, MaxOmega}

\* alpha arguments: 0, the instance's alpha_0 and the angles at a distance
\* MaxAlpha on either side of it.
Alphas(self) ==
  {0, self.alpha_0 - MaxAlpha, self.alpha_0, self.alpha_0 + MaxAlpha}

\* cls(): an instance of any of the ten classes, built with its defaults.
ModelInit ==
  /\ cls \in Classes
  /\ m = New(cls, NoState)
  /\ m0 = m
  /\ nsets = 0
  /\ last = NoCall
  /\ probe = NoCall

\* The probe after a call: a call on the instance as constructed may be kept
\* as the probe; once one is kept, it remembers whether a different call has
\* been made since.
ProbeAfter(fn, args, ret) ==
  IF probe = NoCall
  THEN IF nsets = 0
       THEN {NoCall, [fn |-> fn, args |-> args, ret |-> ret, between |-> FALSE]}
       ELSE {NoCall}
  ELSE {[probe EXCEPT !.between = @ \/ fn # probe.fn \/ args # probe.args]}

\* (Returned_storing: a method that keeps its first argument on the instance.)
Returned_storing(fn, args, ret) ==
  /\ last' = [fn |-> fn, owner |-> Owner(cls, fn), args |-> args, ret |-> ret]
  /\ probe' \in ProbeAfter(fn, args, ret)
  /\ m' = [m EXCEPT !.alpha_0 = args[1]]
  /\ UNCHANGED <<cls, m0, nsets, icVars, runVars>>

\* A call self.fn(*args): the method is looked up through the class,
\* evaluated on the current fields, and writes nothing.
Returned(fn, args, ret) ==
  /\ last' = [fn |-> fn, owner |-> Owner(cls, fn), args |-> args, ret |-> ret]
  /\ probe' \in ProbeAfter(fn, args, ret)
  /\ UNCHANGED <<cls, m, m0, nsets, icVars, runVars>>

CallLift ==
  \E alpha \in Alphas(m) : Returned("C_lift", <<alpha>>, C_lift(m, alpha))

CallDrag ==
  \E alpha \in Alphas(m) : Returned("C_drag", <<alpha>>, C_drag(m, alpha))

CallX ==
  \E wx \in Omegas, wz \in Omegas :
    Returned("C_x", <<wx, wz>>, C_x(m, wx, wz))

CallY ==
  \E alpha \in Alphas(m), wy \in Omegas :
    Returned("C_y", <<alpha, wy>>, C_y(m, alpha, wy))

CallZ == \E wz \in Omegas : Returned("C_z", <<wz>>, C_z(m, wz))

\* instance.f = v.  Model is declared with a plain @dataclass (no
\* frozen=True), so the assignment stores the value.  The observations of the
\* instance made before the assignment (last, probe) are dropped.
SetAttr ==
  /\ nsets < MaxSets
  /\ \E f \in FieldNames, v \in ParamValues : m' = [m EXCEPT ![f] = v]
  /\ nsets' = nsets + 1
  /\ last' = NoCall
  /\ probe' = NoCall
  /\ UNCHANGED <<cls, m0, icVars, runVars>>

\* ------------------------------------------- the disc's initial conditions
ICNames ==
  {"x", "y", "z", "vx", "vy", "vz", "phi", "theta", "gamma", "wx", "wy", "wz"}

TrajKeys == {"times"} \cup ICNames

\* The defaults a disc is configured with: a launch height and a forward
\* speed, everything else zero.
ConfiguredDefaults ==
  {[n \in ICNames |-> IF n = "z" THEN h ELSE IF n = "vx" THEN v ELSE 0] :
     h \in {1, MaxIC}, v \in {0, MaxIC}}

\* set_default_initial_conditions(vx=23, vy=0, theta=0, phi=0.2) of example2.py.
ExampleOverrides == [vx |-> 230, vy |-> 0, theta |-> 0, phi |-> 2]

\* Keyword overrides a caller passes: one name (recognised or not) with a
\* value, the example script's four, or a recognised and an unrecognised one.
Overrides ==
  UNION {{[k \in {n} |-> v] : v \in {0, MaxIC}} : n \in ICNames \cup {"speed"}}
    \cup {ExampleOverrides}
    \cup {[k \in {"vx", "speed"} |-> MaxIC]}

\* dict merge: the names of over take over's values.
Merge(base, over) ==
  [n \in DOMAIN base \cup DOMAIN over |->
     IF n \in DOMAIN over THEN over[n] ELSE base[n]]

\* A Model that belongs to no disc.
NoDisc ==
  /\ ic_orig = NoState
  /\ ic_default = NoState
  /\ ic_current = NoState
  /\ applied = NoState
  /\ lastop = "none"
  /\ nover = 0

ICInit ==
  /\ ic_orig \in ConfiguredDefaults
  /\ ic_default = ic_orig
  /\ ic_current = ic_orig
  /\ applied = NoState
  /\ lastop = "init"
  /\ nover = 0

\* disc.set_default_initial_conditions(**over): merges the named overrides
\* into the defaults; an unrecognised name is a configuration error and
\* nothing is stored.
SetDefaultInitialConditions ==
  /\ nover < MaxOverrideCalls
  /\ nover' = nover + 1
  /\ \E over \in Overrides :
       IF DOMAIN over \subseteq ICNames
       THEN /\ ic_default' = Merge(ic_default, over)
            /\ applied' = Merge(applied, over)
            /\ lastop' = "set"
       ELSE /\ lastop' = "config_error"
            /\ UNCHANGED <<ic_default, applied>>
  /\ UNCHANGED <<ic_orig, ic_current, modelVars, runVars>>

\* (Reset_to_original: a reset that restores the configured values.)
Reset_to_original ==
  /\ ic_current' = ic_orig
  /\ lastop' = "reset"
  /\ UNCHANGED <<ic_orig, ic_default, applied, nover, modelVars, runVars>>

\* disc.reset_initial_conditions(): the defaults become the current
\* initial conditions.
ResetInitialConditions ==
  /\ ic_current' = ic_default
  /\ lastop' = "reset"
  /\ UNCHANGED <<ic_orig, ic_default, applied, nover, modelVars, runVars>>

\* ------------------------------------------------ the trajectory integrator
EmptyTrajectory == [k \in TrajKeys |-> <<>>]

\* No run has been started: there is no working state and no trajectory.
RunIdle ==
  /\ status = "NOT_STARTED"
  /\ flight_time = 0
  /\ t = 0
  /\ work = NoState
  /\ traj = NoState
  /\ recorded = <<>>

\* One time-stamped sample of a kinematic state.
Sample(time, state) ==
  [k \in TrajKeys |-> IF k = "times" THEN time ELSE state[k]]

\* (AppendSample_partial: the sample at ground contact misses its wz.)
AppendSample_partial(tr, time, state) ==
  [k \in TrajKeys |->
     IF k = "wz" /\ state.z <= 0 THEN tr[k]
     ELSE Append(tr[k], Sample(time, state)[k])]

\* Appending a sample to the trajectory appends its value to every array.
AppendSample(tr, time, state) ==
  [k \in TrajKeys |-> Append(tr[k], Sample(time, state)[k])]

\* The accelerations the equations of motion may return for a state: free
\* fall, lift balancing gravity with drag and spin-down, and a pitching dive.
Accelerations ==
  {[ax |-> 0, az |-> -98, awy |-> 0, awz |-> 0],
   [ax |-> -10, az |-> 0, awy |-> 0, awz |-> -1],
   [ax |-> -20, az |-> -200, awy |-> 1, awz |-> -1]}

\* One fixed step (dt = 1): positions advance by the velocities, angles by
\* the angular velocities, velocities and angular velocities by the
\* accelerations.
Advance(s, a) ==
  [s EXCEPT !.x = s.x + s.vx, !.y = s.y + s.vy, !.z = s.z + s.vz,
            !.phi = s.phi + s.wx, !.theta = s.theta + s.wy,
            !.gamma = s.gamma + s.wz,
            !.vx = s.vx + a.ax, !.vz = s.vz + a.az,
            !.wy = s.wy + a.awy, !.wz = s.wz + a.awz]

\* disc.compute_trajectory(flight_time) starts a run: the current initial
\* conditions are copied into the working state and the initial sample
\* (t = 0) is recorded.
StartRun ==
  /\ status # "RUNNING"
  /\ \E ft \in 0 .. MaxFlight : flight_time' = ft
  /\ status' = "RUNNING"
  /\ t' = 0
  /\ work' = ic_current
  /\ traj' = AppendSample(EmptyTrajectory, 0, ic_current)
  /\ recorded' = <<Sample(0, ic_current)>>
  /\ UNCHANGED <<modelVars, icVars>>

\* One integration step.  A non-finite value aborts the run with a
\* numerical-instability error and no trajectory is returned; otherwise the
\* new state is recorded, and the run ends early on ground contact or
\* completes when the flight time has elapsed.
StepRun ==
  /\ status = "RUNNING"
  /\ t < flight_time
  /\ \E a \in Accelerations, finite \in BOOLEAN :
       LET new == Advance(work, a) IN
       IF finite
       THEN /\ t' = t + 1
            /\ work' = new
            /\ traj' = AppendSample(traj, t + 1, new)
            /\ recorded' = Append(recorded, Sample(t + 1, new))
            /\ status' = IF new.z <= 0 THEN "TERMINATED_EARLY"
                         ELSE IF t + 1 >= flight_time THEN "COMPLETED"
                         ELSE "RUNNING"
       ELSE /\ status' = "ABORTED"
            /\ traj' = NoState
            /\ UNCHANGED <<t, work, recorded>>
  /\ UNCHANGED <<flight_time, modelVars, icVars>>

\* The loop ends at once when no time is requested.
FinishRun ==
  /\ status = "RUNNING"
  /\ t >= flight_time
  /\ status' = "COMPLETED"
  /\ UNCHANGED <<flight_time, t, work, traj, recorded, modelVars, icVars>>

\* -------------------------------------------------------- specifications
\* The coefficient model on its own: any class, calls and assignments.
Init == ModelInit /\ NoDisc /\ RunIdle

Next == CallLift \/ CallDrag \/ CallX \/ CallY \/ CallZ \/ SetAttr

Spec == Init /\ [][Next]_vars

\* A disc's initial conditions: overrides and resets.
InitIC == ModelInit /\ cls = "Model" /\ ICInit /\ RunIdle

NextIC == SetDefaultInitialConditions \/ ResetInitialConditions

SpecIC == InitIC /\ [][NextIC]_vars

\* Runs of compute_trajectory, on a disc as configured or after the example
\* script's set-then-reset.
InitRun ==
  /\ ModelInit /\ cls = "Model"
  /\ ic_orig \in ConfiguredDefaults
  /\ \/ applied = NoState /\ nover = 0 /\ lastop = "init"
     \/ applied = ExampleOverrides /\ nover = 1 /\ lastop = "reset"
  /\ ic_default = Merge(ic_orig, applied)
  /\ ic_current = ic_default
  /\ RunIdle

NextRun == StartRun \/ StepRun \/ FinishRun

SpecRun == InitRun /\ [][NextRun]_vars

\* --------------------------------------------------------------- properties
Alpha(call) == call.args[1]

\* C1 (as stated): for every Model, whatever the sign of its parameters,
\* C_drag is minimal at alpha_0: C_drag(alpha_0) <= C_drag(alpha) for the
\* alpha of every C_drag call.
C1_DragMinimalAtAlpha0 ==
  last.fn = "C_drag" => C_drag(m, m.alpha_0) <= last.ret

\* C1 (amended): for every Model with PDa >= 0, C_drag is minimal at
\* alpha_0: C_drag(alpha_0) <= C_drag(alpha) for the alpha of every call.
C1_DragMinimalWhenPDaNonNegative ==
  (last.fn = "C_drag" /\ m.PDa >= 0) => C_drag(m, m.alpha_0) <= last.ret

\* A C_drag call away from alpha_0 on a Model with PDa > 0 returned more than
\* the value at alpha_0.
C1_Witness ==
  /\ last.fn = "C_drag"
  /\ m.PDa > 0
  /\ Alpha(last) # m.alpha_0
  /\ C_drag(m, m.alpha_0) < last.ret

\* C2 (as stated): after any sequence of overrides, reset_initial_conditions
\* makes the originally configured defaults the current initial conditions.
C2_ResetRestoresOriginal == lastop = "reset" => ic_current = ic_orig

\* C2 (amended): reset_initial_conditions makes the stored defaults current,
\* and these are the originally configured defaults with every accepted
\* override merged in (later over earlier); a reset that follows a reset
\* changes neither the current initial conditions nor the defaults.
C2_ResetRestoresMergedDefaults ==
  [][/\ lastop' = "reset" =>
          /\ ic_current' = Merge(ic_orig, applied')
          /\ ic_current' = ic_default'
          /\ ic_default' = ic_default
     /\ (lastop = "reset" /\ lastop' = "reset") =>
          /\ ic_current' = ic_current
          /\ ic_default' = ic_default]_vars

\* A reset after two accepted overrides left current initial conditions that
\* differ from the configured ones.
C2_Witness ==
  /\ lastop = "reset"
  /\ nover = 2
  /\ Cardinality(DOMAIN applied) >= 2
  /\ ic_current # ic_orig
  /\ ic_current = ic_default

ReturnedStatuses == {"COMPLETED", "TERMINATED_EARLY"}

\* C3: in every returned trajectory (completed or terminated early) the
\* thirteen arrays have the same length, at least one, and sample i of every
\* array is the value of the i-th recorded state, whose time is times[i].
C3_ArraysAligned ==
  status \in ReturnedStatuses =>
    /\ Len(traj.times) >= 1
    /\ Len(recorded) = Len(traj.times)
    /\ \A k \in TrajKeys : Len(traj[k]) = Len(traj.times)
    /\ \A i \in 1 .. Len(recorded) :
         /\ [k \in TrajKeys |-> traj[k][i]] = recorded[i]
         /\ traj.times[i] = i - 1
    /\ [k \in ICNames |-> traj[k][Len(traj.times)]] = work

\* A run that terminated early after at least two steps, with its terminal
\* sample at or below the ground.
C3_Witness ==
  /\ status = "TERMINATED_EARLY"
  /\ Len(traj.times) >= 3
  /\ traj.z[Len(traj.z)] <= 0
  /\ traj.wz[Len(traj.wz)] # traj.wz[1]

\* C4 (as stated): once constructed, none of the eleven fields of a Model
\* takes a different value, whatever a caller does with the instance.
C4_FieldsNeverChange == m = m0

\* C5: a coefficient call leaves every field of the Model unchanged, and a
\* call with the arguments of an earlier call on the same Model returns the
\* earlier value, whatever was called in between.
C5_CoefficientFunctionsPure ==
  /\ [][(last' # last /\ last' # NoCall) => m' = m]_vars
  /\ []((probe # NoCall /\ last.fn = probe.fn /\ last.args = probe.args)
          => last.ret = probe.ret)

\* The probed call was repeated after a different call.
C5_Witness ==
  /\ probe # NoCall
  /\ probe.between
  /\ last.fn = probe.fn
  /\ last.args = probe.args
  /\ m = m0

\* C6: C_drag(alpha) = PD0 + PDa * (alpha - alpha_0)^2 without clamping, so
\* C_drag(alpha_0) = PD0 and the values at alpha_0 + d and alpha_0 - d agree.
C6_DragQuadratic ==
  /\ last.fn = "C_drag" =>
       LET d == Alpha(last) - m.alpha_0 IN
       /\ last.ret = m.PD0 + m.PDa * d * d
       /\ d = 0 => last.ret = m.PD0
       /\ C_drag(m, m.alpha_0 - d) = last.ret
  /\ (probe # NoCall /\ probe.fn = "C_drag" /\ last.fn = "C_drag"
        /\ Alpha(probe) - m.alpha_0 = m.alpha_0 - Alpha(last))
       => probe.ret = last.ret

\* Two C_drag calls at alpha_0 - d and alpha_0 + d, d # 0, with PDa # 0.
C6_Witness ==
  /\ probe # NoCall
  /\ probe.fn = "C_drag"
  /\ last.fn = "C_drag"
  /\ Alpha(probe) < m.alpha_0
  /\ Alpha(last) = 2 * m.alpha_0 - Alpha(probe)
  /\ last.ret # m.PD0

\* C7: C_lift(alpha) = PL0 + PLa * alpha: PL0 at alpha = 0, slope PLa, and
\* the same value whatever alpha_0 or any other parameter is.
C7_LiftAffine ==
  last.fn = "C_lift" =>
    /\ last.ret = m.PL0 + m.PLa * Alpha(last)
    /\ Alpha(last) = 0 => last.ret = m.PL0
    /\ C_lift(m, Alpha(last) + 1) - last.ret = m.PLa
    /\ \A f \in FieldNames \ {"PL0", "PLa"}, v \in ParamValues :
         C_lift([m EXCEPT ![f] = v], Alpha(last)) = last.ret

\* A C_lift call at a non-zero alpha on a Model with non-zero slope and
\* non-zero alpha_0.
C7_Witness ==
  /\ last.fn = "C_lift"
  /\ Alpha(last) # 0
  /\ m.PLa # 0
  /\ m.alpha_0 # 0
  /\ last.ret # m.PL0

\* C8: C_y(alpha, wy) = PTy0 + PTywy * wy + PTya * alpha: PTywy multiplies
\* wy, PTya multiplies alpha, and the value at alpha = 0, wy = 0 is PTy0.
C8_YTorqueAffine ==
  last.fn = "C_y" =>
    LET alpha == last.args[1]
        wy == last.args[2]
    IN /\ last.ret = m.PTy0 + m.PTywy * wy + m.PTya * alpha
       /\ (alpha = 0 /\ wy = 0) => last.ret = m.PTy0
       /\ C_y(m, alpha, wy + 1) - last.ret = m.PTywy
       /\ C_y(m, alpha + 1, wy) - last.ret = m.PTya

\* A C_y call with alpha # wy, both non-zero, on a Model with PTywy # PTya.
C8_Witness ==
  /\ last.fn = "C_y"
  /\ last.args[1] # 0
  /\ last.args[2] # 0
  /\ last.args[1] # last.args[2]
  /\ m.PTywy # m.PTya

\* C9: on a Model or preset built with its defaults PTzwz is negative, so
\* C_z(0) = 0 and C_z(wz) has the sign opposite to wz.
C9_SpinDamping ==
  m = Defaults(cls) =>
    /\ m.PTzwz < 0
    /\ last.fn = "C_z" =>
         LET wz == last.args[1] IN
         /\ last.ret = m.PTzwz * wz
         /\ wz = 0 => last.ret = 0
         /\ wz > 0 => last.ret < 0
         /\ wz < 0 => last.ret > 0

\* A C_z call with wz < 0 on a preset built with its defaults.
C9_Witness ==
  /\ cls = "JankieModel"
  /\ m = Defaults(cls)
  /\ last.fn = "C_z"
  /\ last.args[1] < 0
  /\ last.ret > 0

OverriddenFields == {"PL0", "PLa", "PD0", "PTy0", "PTya"}

\* C10: every subclass declares only PL0, PLa, PD0, PTy0, PTya and defines
\* none of the coefficient functions, so an instance of it is built with
\* Model's defaults for the other six fields (a default HummelModel with all
\* of Model's defaults); and every call on an instance of any class is
\* Model's function applied to the instance's field values.
C10_PresetsDifferOnlyInParameters ==
  LET base == Defaults("Model") IN
  /\ m0 = Defaults(cls)
  /\ cls \in Subclasses =>
       /\ DOMAIN ClassBody(cls) = OverriddenFields
       /\ MethodsDefined(cls) = {}
       /\ \A f \in FieldNames \ OverriddenFields : m0[f] = base[f]
  /\ cls = "HummelModel" => m0 = base
  /\ last # NoCall =>
       /\ last.owner = "Model"
       /\ last.ret = ModelCall(last.fn, m, last.args)

\* A call on a subclass instance whose fields equal those of a default Model.
C10_Witness ==
  /\ cls \in Subclasses
  /\ m = Defaults("Model")
  /\ last.fn = "C_drag"
  /\ last.ret # m.PD0

====
